---- MODULE Spec2Model ----
(***************************************************************************)
(* Bounty resolution pipeline of the Seek backend: the bounty state store, *)
(* the commit-reveal secrets, the photo-submit request path with its       *)
(* on-chain settlement calls, the finalization worker and the SGT          *)
(* (sybil-guarded) wallet verifier.                                        *)
(*                                                                         *)
(* Node runs one handler at a time: an action is the synchronous stretch   *)
(* of a handler between two awaits that wait on I/O.  A call to the vision *)
(* model, to the settlement contract or to the token-ownership RPC is      *)
(* issued by the action that reaches the await and completed, with an      *)
(* outcome chosen by the environment, by the next action of that request.  *)
(***************************************************************************)
EXTENDS Integers, Sequences, FiniteSets, TLC

\* ------------------------------------------------------------------ bounds
MaxBounties == 2
MaxReqs == 1
MaxSlots == 2
MaxNow == 86750
MaxShortTicks == 1

\* ------------------------------------------------------- program constants
TIER_DURATION_1 == 600
TIER_DURATION_2 == 300
TIER_DURATION_3 == 120
THRESHOLD_1 == 80
THRESHOLD_2 == 85
THRESHOLD_3 == 90
MAX_PHOTO_AGE_SECONDS == 300
FUTURE_SKEW_SECONDS == 60
PRECAPTURE_TOLERANCE_MS == 5000
CLEANUP_MAX_AGE_HOURS == 24
PRECHECK_CONFIDENCE == 90
PRECAPTURE_CONFIDENCE == 95

Tiers == {1, 2, 3}
TIER_DURATIONS == [t \in Tiers |-> CASE t = 1 -> TIER_DURATION_1
                                     [] t = 2 -> TIER_DURATION_2
                                     [] t = 3 -> TIER_DURATION_3]
TIER_CONFIDENCE_THRESHOLDS == [t \in Tiers |-> CASE t = 1 -> THRESHOLD_1
                                                 [] t = 2 -> THRESHOLD_2
                                                 [] t = 3 -> THRESHOLD_3]

\* ------------------------------------------------------------ input domains
Wallets == {"wA", "wB"}
Pdas == {"pda1", "pda2"}
TiersOffered == {3}
ShortStep == 350
LongStep == 86400
NoSig == <<"none">>
None == "undefined"
BountyIds == 1..MaxBounties
\* The request slots; ReqIds are the ones used when requests are served one at a time.
SlotIds == 1..MaxSlots
ReqIds == 1..MaxReqs
ConfLevels == {72, 95}
\* randomFillSync for the n-th bounty: 32 fresh random bytes.
Salt(n) == <<"salt", n>>

VARIABLES
    isDev,              \* config.server.isDev
    now,                \* wall clock, seconds
    activeBounties,     \* Map<bountyId, ActiveBounty>
    bountyByPlayer,     \* Map<wallet, bountyId>
    missionSecrets,     \* Map<bountyId, {missionIdBytes, salt}>
    nextId,             \* the next uuid
    reqs,               \* the HTTP requests in flight, each at its await
    chainCalls,         \* the settlement calls issued so far, and (op proposeResolution_ok)
                        \* the proposals that returned without throwing
    commitments,        \* the commitment generateMissionCommitment returned, per bounty
    aiThrew,            \* bounties one of whose submissions had the adjudicator throw
    submitLog,          \* per bounty, what the POST /submit requests for it have done
    \* finalizer.service
    pendingFinalizations, \* Map<bountyPda, PendingFinalization>: the record objects, in insertion order
    recs,               \* the PendingFinalization objects allocated so far
    intervalHandle,     \* whether the worker's interval timer is set
    polls,              \* the runs of processPendingFinalizations in flight
    attemptsMade,       \* per record object, the calls of finalizeSingleBounty made for it
    lastEnqueueDup,     \* the account the last operation, a duplicate enqueue, named; "" else
    \* sgt.service
    activeNonces,       \* Map<nonce, {createdAt, walletAddress}>
    nextNonce,          \* the next random nonce
    verifiedWallets,    \* Map<wallet, SGTVerificationResult>
    sgtMintToWallet,    \* Map<mint, wallet>
    sgtReqs,            \* the /verify requests awaiting checkSGTOwnership
    usedNonces,         \* nonces a signature verification has succeeded with
    lastAttempt,        \* the last call of verifySIWSSignature and its result
    provenance,         \* per verified wallet, whose signature got it verified
    lastClaim,          \* the last ownership answer verifySGTForWallet acted on
    \* ai.service
    vp                  \* a call of validatePhoto: its arguments, its await, its result

bountyVars == <<activeBounties, bountyByPlayer, missionSecrets, nextId,
                reqs, chainCalls, commitments, aiThrew, submitLog>>
finVars == <<pendingFinalizations, recs, intervalHandle, polls, attemptsMade,
             lastEnqueueDup>>
sgtVars == <<activeNonces, nextNonce, verifiedWallets, sgtMintToWallet, sgtReqs,
             usedNonces, lastAttempt, provenance, lastClaim>>

valVars == <<vp>>

vars == <<isDev, now, bountyVars, finVars, sgtVars, valVars>>

\* --------------------------------------------------------------- Map helpers
MapHas(m, k) == k \in DOMAIN m
MapSet(m, k, v) == [x \in (DOMAIN m) \cup {k} |-> IF x = k THEN v ELSE m[x]]
MapDelete(m, k) == [x \in (DOMAIN m) \ {k} |-> m[x]]
EmptyMap == [x \in {} |-> None]

\* ----------------------------------------------------------- mission commitment
\* sha256 is modelled as an injective constructor: equal digests have equal inputs.
Sha256(x) == <<"sha256", x>>

\* The catalog: the mission getRandomMission(tier) may draw.
MissionsOfTier(t) == {<<"mission", t>>}

generateMissionCommitment(missionId, salt) ==
    LET missionIdBytes == Sha256(missionId)
    IN  [commitment |-> Sha256(<<missionIdBytes, salt>>),
         missionIdBytes |-> missionIdBytes,
         salt |-> salt]

\* A storeMissionSecrets that keeps the mission bytes in the salt's place.
storeMissionSecretsLosingSalt(secrets, bountyId, missionIdBytes, salt) ==
    MapSet(secrets, bountyId, [missionIdBytes |-> missionIdBytes, salt |-> missionIdBytes])

storeMissionSecrets(secrets, bountyId, missionIdBytes, salt) ==
    MapSet(secrets, bountyId, [missionIdBytes |-> missionIdBytes, salt |-> salt])

\* The result is optional: the empty set stands for undefined.
getMissionSecrets(secrets, bountyId) ==
    IF MapHas(secrets, bountyId) THEN {secrets[bountyId]} ELSE {}

\* ------------------------------------------------------------- bounty store
Terminal == {"won", "lost", "expired"}

\* The result is optional: the empty set stands for undefined.
getPlayerActiveBounty(bounties, byPlayer, playerWallet) ==
    IF ~MapHas(byPlayer, playerWallet) THEN {}
    ELSE LET bountyId == byPlayer[playerWallet]
         IN  IF ~MapHas(bounties, bountyId) \/ bounties[bountyId].status # "pending"
             THEN {}
             ELSE {bountyId}

\* createBounty throws when the indexed bounty of the wallet is pending.
createBountyThrows(bounties, byPlayer, playerWallet) ==
    /\ MapHas(byPlayer, playerWallet)
    /\ MapHas(bounties, byPlayer[playerWallet])
    /\ bounties[byPlayer[playerWallet]].status = "pending"

createBounty(id, playerWallet, tier, mission, bountyPda, transactionSignature) ==
    [missionId |-> mission,
     playerWallet |-> playerWallet,
     tier |-> tier,
     status |-> "pending",
     createdAt |-> now,
     expiresAt |-> now + TIER_DURATIONS[tier],
     bountyPda |-> bountyPda,
     transactionSignature |-> transactionSignature]

updateBountyStatus(bounties, bountyId, status, transactionSignature) ==
    IF ~MapHas(bounties, bountyId) THEN bounties
    ELSE [bounties EXCEPT ![bountyId] =
            [@ EXCEPT !.status = status,
                      !.transactionSignature =
                          IF transactionSignature # NoSig THEN transactionSignature ELSE @]]

\* An isBountyExpired that never finds a bounty expired.
isBountyExpiredNever(bounty) == FALSE

isBountyExpired(bounty) == now > bounty.expiresAt

\* A markBountyValidating that leaves the bounty pending.
markBountyValidatingWithoutMark(bounties, bountyId) == bounties

markBountyValidating(bounties, bountyId) ==
    IF ~MapHas(bounties, bountyId) \/ bounties[bountyId].status # "pending"
    THEN bounties
    ELSE [bounties EXCEPT ![bountyId].status = "validating"]

expireOldBounties(bounties) ==
    [id \in DOMAIN bounties |->
        IF bounties[id].status = "pending" /\ now > bounties[id].expiresAt
        THEN [bounties[id] EXCEPT !.status = "expired"]
        ELSE bounties[id]]

\* The ids cleanupOldBounties removes.
CleanupRemoved(bounties, maxAgeHours) ==
    {id \in DOMAIN bounties :
        /\ bounties[id].status # "pending"
        /\ bounties[id].status # "validating"
        /\ bounties[id].createdAt < now - maxAgeHours * 60 * 60}


\* ------------------------------------------------------------ pre-checks
\* PhotoMetadata as extractExifMetadata returns it.  Every field is optional:
\* timestamp, latitude and longitude are a set holding the value, or empty.
SuspiciousModels == {"Screenshot App"}
Truthy(opt) == opt # {} /\ opt # {0}

\* An isLikelyScreenshot that looks at the model name only.
isLikelyScreenshotByModelName(metadata) ==
    metadata.deviceModel \in SuspiciousModels

isLikelyScreenshot(metadata) ==
    LET hasNoGps == ~Truthy(metadata.latitude) /\ ~Truthy(metadata.longitude)
        hasNoDevice == metadata.deviceMake = None /\ metadata.deviceModel = None
        hasSuspiciousModel == metadata.deviceModel \in SuspiciousModels
    IN  (hasNoDevice /\ hasNoGps) \/ hasSuspiciousModel

\* ageSeconds <= maxAgeSeconds && ageSeconds >= -60
isPhotoRecent(metadata, maxAgeSeconds) ==
    IF metadata.timestamp = {} THEN TRUE
    ELSE LET photoTime == CHOOSE t \in metadata.timestamp : TRUE
             ageSeconds == now - photoTime
         IN  ageSeconds <= maxAgeSeconds /\ ageSeconds >= -FUTURE_SKEW_SECONDS

Verdict(isValid, confidence, isScreenshot, reasoning) ==
    [isValid |-> isValid, confidence |-> confidence,
     isScreenshot |-> isScreenshot, reasoning |-> reasoning]

NoValidation == Verdict(FALSE, 0, FALSE, "none")

performPreChecks(metadata, bountyStartTime) ==
    IF isLikelyScreenshot(metadata)
    THEN [passed |-> FALSE,
          result |-> Verdict(FALSE, PRECHECK_CONFIDENCE, TRUE, "screenshot_metadata")]
    ELSE IF ~isPhotoRecent(metadata, MAX_PHOTO_AGE_SECONDS)
    THEN [passed |-> FALSE,
          result |-> Verdict(FALSE, PRECHECK_CONFIDENCE, FALSE, "too_old_or_future")]
    ELSE IF \E photoTime \in metadata.timestamp :
                photoTime * 1000 < bountyStartTime * 1000 - PRECAPTURE_TOLERANCE_MS
    THEN [passed |-> FALSE,
          result |-> Verdict(FALSE, PRECAPTURE_CONFIDENCE, FALSE, "pre_captured")]
    ELSE [passed |-> TRUE, result |-> Verdict(TRUE, 100, FALSE, "")]

\* ------------------------------------------------------------ adjudicator
\* What the vision call yields: a transport error, a non-text block, or a text
\* whose JSON is missing, malformed, off-schema or well-formed.
AiKinds == {"transport_error", "non_text", "no_json", "bad_json", "schema_mismatch", "ok"}
AiResponses == [kind : AiKinds \ {"ok"}, isValid : {FALSE}, confidence : {0},
                isScreenshot : {FALSE}]
               \cup [kind : {"ok"}, isValid : BOOLEAN, confidence : ConfLevels,
                     isScreenshot : BOOLEAN]

\* parseAiResponse throws unless the text holds a JSON object matching the schema.
parseAiResponseThrows(response) == response.kind \in {"no_json", "bad_json", "schema_mismatch"}

\* The try block of validatePhoto throws on a transport error, a non-text
\* content block or a parse failure.
adjudicationThrows(response) ==
    response.kind \in {"transport_error", "non_text"} \/ parseAiResponseThrows(response)

\* A validatePhoto that does not apply the tier's confidence threshold.
validatePhotoWithoutFloor(response, tier) ==
    IF adjudicationThrows(response)
    THEN Verdict(FALSE, 0, FALSE, "system_error")
    ELSE Verdict(IF response.isScreenshot THEN FALSE ELSE response.isValid,
                 response.confidence, response.isScreenshot, "model")

\* validatePhoto from the return of the vision call on.
validatePhoto(response, tier) ==
    IF adjudicationThrows(response)
    THEN Verdict(FALSE, 0, FALSE, "system_error")
    ELSE LET threshold == TIER_CONFIDENCE_THRESHOLDS[tier]
             afterFloor == IF response.confidence < threshold THEN FALSE
                           ELSE response.isValid
             afterShot == IF response.isScreenshot THEN FALSE ELSE afterFloor
         IN  Verdict(afterShot, response.confidence, response.isScreenshot, "model")


\* ------------------------------------------------------------ request slots
\* A request in flight keeps the bounty object it fetched (its id, account and
\* tier never change) and the verdict of validatePhoto once it has one.
IdleReq == [pc |-> "idle", bounty |-> 0, pda |-> "", tier |-> 1, success |-> FALSE]

\* What POST /submit has done for a bounty: the requests that got past the status
\* and expiry guards, the vision calls and settlement calls they issued, and
\* whether one was turned away at the status guard while another was in flight.
NoSubmits == [passed |-> 0, vision |-> 0, reveal |-> 0, propose |-> 0,
              refusedInFlight |-> FALSE]
Logged(log, b, field) == [log EXCEPT ![b][field] = @ + 1]
SubmitInFlight(b) ==
    \E q \in SlotIds : reqs[q].bounty = b /\ reqs[q].pc \in {"ai", "reveal", "propose", "finalize"}

\* A new request takes the lowest free slot.
FreeSlot(r) == reqs[r].pc = "idle" /\ \A q \in SlotIds : q < r => reqs[q].pc # "idle"

Awaiting(b, bounty, pc, success) ==
    [pc |-> pc, bounty |-> b, pda |-> bounty.bountyPda, tier |-> bounty.tier,
     success |-> success]

\* new PublicKey(bountyPda) throws on a string that is no public key.
IsPublicKey(pda) == pda \in Pdas

ChainCall(op, pda, b, arg, by) == [op |-> op, pda |-> pda, bounty |-> b, arg |-> arg, by |-> by]

PhotoTimes == {now - 600, now}
Metadatas ==
    {[timestamp |-> ts, latitude |-> gps[1], longitude |-> gps[2],
      deviceMake |-> dev[1], deviceModel |-> dev[2]] :
        ts \in {{}} \cup {{t} : t \in PhotoTimes},
        gps \in {<<{}, {}>>, <<{45}, {9}>>},
        dev \in {<<None, None>>, <<"Google", "Pixel 8">>, <<None, "Screenshot App">>}}

\* ------------------------------------------------------------------- Init
BountyInit ==
    /\ activeBounties = EmptyMap
    /\ bountyByPlayer = EmptyMap
    /\ missionSecrets = EmptyMap
    /\ nextId = 1
    /\ reqs = [r \in SlotIds |-> IdleReq]
    /\ chainCalls = {}
    /\ commitments = EmptyMap
    /\ aiThrew = {}
    /\ submitLog = [b \in BountyIds |-> NoSubmits]

\* --------------------------------------------------------- POST /start
\* 409 when getPlayerActiveBounty finds a bounty, 500 when createBounty throws;
\* else the bounty is created and its commitment secrets are stored.
StartBounty(playerWallet, tier, bountyPda, transactionSignature) ==
    /\ nextId <= MaxBounties
    /\ IF \/ getPlayerActiveBounty(activeBounties, bountyByPlayer, playerWallet) # {}
          \/ createBountyThrows(activeBounties, bountyByPlayer, playerWallet)
       THEN UNCHANGED <<activeBounties, bountyByPlayer, missionSecrets, nextId, commitments>>
       ELSE \E mission \in MissionsOfTier(tier) :
            LET bounty == createBounty(nextId, playerWallet, tier, mission, bountyPda,
                                       transactionSignature)
                c == generateMissionCommitment(bounty.missionId, Salt(nextId))
            IN  /\ activeBounties' = MapSet(activeBounties, nextId, bounty)
                /\ bountyByPlayer' = MapSet(bountyByPlayer, playerWallet, nextId)
                /\ missionSecrets' =
                       storeMissionSecrets(missionSecrets, nextId, c.missionIdBytes, c.salt)
                /\ commitments' = MapSet(commitments, nextId, c.commitment)
                /\ nextId' = nextId + 1
    /\ UNCHANGED <<submitLog, isDev, now, reqs, chainCalls, aiThrew>>
    /\ UNCHANGED <<finVars, sgtVars, valVars>>

\* --------------------------------------------------------- POST /demo/start
\* Registered in development mode only; no commitment is generated.
DemoStart(wallet, tier) ==
    /\ isDev
    /\ nextId <= MaxBounties
    /\ IF createBountyThrows(activeBounties, bountyByPlayer, wallet)
       THEN UNCHANGED <<activeBounties, bountyByPlayer, nextId>>
       ELSE \E mission \in MissionsOfTier(tier) :
            /\ activeBounties' = MapSet(activeBounties, nextId,
                   createBounty(nextId, wallet, tier, mission, "demo-pda", NoSig))
            /\ bountyByPlayer' = MapSet(bountyByPlayer, wallet, nextId)
            /\ nextId' = nextId + 1
    /\ UNCHANGED <<submitLog, isDev, now, missionSecrets, reqs, chainCalls, commitments, aiThrew>>
    /\ UNCHANGED <<finVars, sgtVars, valVars>>

\* ------------------------------------------------ resolveBountyOnChain, entry
\* The synchronous head of resolveBountyOnChain: reveal when both secrets are
\* given, else propose; `new PublicKey` of a malformed account throws before the
\* call is issued, and the route's catch answers 500.
BeginResolve(r, b, pda, tier, success, log) ==
    LET secrets == getMissionSecrets(missionSecrets, b)
        req == [pc |-> "idle", bounty |-> b, pda |-> pda, tier |-> tier, success |-> success]
    IN  IF ~IsPublicKey(pda)
        THEN /\ reqs' = [reqs EXCEPT ![r] = IdleReq]
             /\ submitLog' = log
             /\ UNCHANGED chainCalls
        ELSE IF secrets # {}
        THEN LET sec == CHOOSE x \in secrets : TRUE
             IN  /\ reqs' = [reqs EXCEPT ![r] = [req EXCEPT !.pc = "reveal"]]
                 /\ submitLog' = Logged(log, b, "reveal")
                 /\ chainCalls' = chainCalls \cup
                        {ChainCall("revealMission", pda, b, <<sec.missionIdBytes, sec.salt>>,
                                   "submit")}
        ELSE /\ reqs' = [reqs EXCEPT ![r] = [req EXCEPT !.pc = "propose"]]
             /\ submitLog' = Logged(log, b, "propose")
             /\ chainCalls' = chainCalls \cup
                    {ChainCall("proposeResolution", pda, b, <<success>>, "submit")}

\* --------------------------------------------------------- POST /submit
\* From the request to the first await on I/O: the guards (404, 400 not pending,
\* 400 expired), markBountyValidating and, outside development mode, the
\* pre-checks of validatePhoto.
SubmitPhoto(r, b, metadata) ==
    /\ FreeSlot(r)
    /\ IF ~MapHas(activeBounties, b)
       THEN UNCHANGED <<activeBounties, reqs, chainCalls, submitLog>>
       ELSE LET bounty == activeBounties[b]
                pre == performPreChecks(metadata, bounty.createdAt)
                passed == Logged(submitLog, b, "passed")
            IN  IF bounty.status # "pending"
                THEN /\ submitLog' = IF SubmitInFlight(b)
                                      THEN [submitLog EXCEPT ![b].refusedInFlight = TRUE]
                                      ELSE submitLog
                     /\ UNCHANGED <<activeBounties, reqs, chainCalls>>
                ELSE IF isBountyExpired(bounty)
                THEN /\ activeBounties' = updateBountyStatus(activeBounties, b, "expired", NoSig)
                     /\ UNCHANGED <<reqs, chainCalls, submitLog>>
                ELSE /\ activeBounties' = markBountyValidating(activeBounties, b)
                     /\ IF ~isDev /\ ~pre.passed
                        THEN BeginResolve(r, b, bounty.bountyPda, bounty.tier,
                                          pre.result.isValid, passed)
                        ELSE /\ reqs' = [reqs EXCEPT ![r] = Awaiting(b, bounty, "ai", FALSE)]
                             /\ submitLog' = Logged(passed, b, "vision")
                             /\ UNCHANGED chainCalls
    /\ UNCHANGED <<isDev, now, bountyByPlayer, missionSecrets, nextId, commitments, aiThrew>>
    /\ UNCHANGED <<finVars, sgtVars, valVars>>

\* The vision call returns (or throws); validatePhoto ends and the route enters
\* resolveBountyOnChain.
SubmitAiReturns(r, response) ==
    /\ reqs[r].pc = "ai"
    /\ LET validation == validatePhoto(response, reqs[r].tier)
       IN  /\ BeginResolve(r, reqs[r].bounty, reqs[r].pda, reqs[r].tier, validation.isValid,
                           submitLog)
           /\ aiThrew' = IF adjudicationThrows(response)
                         THEN aiThrew \cup {reqs[r].bounty} ELSE aiThrew
    /\ UNCHANGED <<isDev, now, activeBounties, bountyByPlayer, missionSecrets, nextId,
                   commitments>>
    /\ UNCHANGED <<finVars, sgtVars, valVars>>

\* revealMission returns: propose is issued; or it throws and the route answers 500.
SubmitRevealReturns(r, ok) ==
    /\ reqs[r].pc = "reveal"
    /\ IF ok
       THEN /\ reqs' = [reqs EXCEPT ![r].pc = "propose"]
            /\ submitLog' = Logged(submitLog, reqs[r].bounty, "propose")
            /\ chainCalls' = chainCalls \cup
                   {ChainCall("proposeResolution", reqs[r].pda, reqs[r].bounty,
                              <<reqs[r].success>>, "submit")}
       ELSE /\ reqs' = [reqs EXCEPT ![r] = IdleReq]
            /\ UNCHANGED <<chainCalls, submitLog>>
    /\ UNCHANGED <<isDev, now, activeBounties, bountyByPlayer, missionSecrets, nextId,
                   commitments, aiThrew>>
    /\ UNCHANGED <<finVars, sgtVars, valVars>>

\* proposeResolution returns: finalizeBountyOnChain fetches the global state and
\* issues finalizeBounty; a throw of propose or of the fetch answers 500.
SubmitProposeReturns(r, ok, fetchOk) ==
    /\ reqs[r].pc = "propose"
    /\ IF ok /\ fetchOk
       THEN /\ reqs' = [reqs EXCEPT ![r].pc = "finalize"]
            /\ chainCalls' = chainCalls \cup
                   {ChainCall("proposeResolution_ok", reqs[r].pda, reqs[r].bounty,
                              <<reqs[r].success>>, "submit"),
                    ChainCall("finalizeBounty", reqs[r].pda, reqs[r].bounty, <<>>, "submit")}
       ELSE /\ reqs' = [reqs EXCEPT ![r] = IdleReq]
            /\ chainCalls' = IF ok
                             THEN chainCalls \cup
                                  {ChainCall("proposeResolution_ok", reqs[r].pda,
                                             reqs[r].bounty, <<reqs[r].success>>, "submit")}
                             ELSE chainCalls
    /\ UNCHANGED <<submitLog, isDev, now, activeBounties, bountyByPlayer, missionSecrets, nextId,
                   commitments, aiThrew>>
    /\ UNCHANGED <<finVars, sgtVars, valVars>>

FinalizeOutcomes == {"ok", "ChallengePeriodActive", "error", "ok_then_fetch_throws"}

\* A route that records every resolved bounty as won.
resolvedStatusAlwaysWon(success) == "won"

\* success ? 'won' : 'lost'
resolvedStatus(success) == IF success THEN "won" ELSE "lost"

\* What resolveBountyOnChain returns as signature.
resolveSignature(outcome, pda) ==
    IF outcome = "ok" THEN <<"finalize_sig", pda>> ELSE <<"pending_finalize", pda>>

\* finalizeBounty returns.  A ChallengePeriodActive rejection is caught and turned
\* into the pending_finalize signature, and the route records the verdict; any
\* other throw answers 500 and leaves the bounty as it is.
SubmitFinalizeReturns(r, outcome) ==
    /\ reqs[r].pc = "finalize"
    /\ IF outcome \in {"ok", "ChallengePeriodActive"}
       THEN activeBounties' = updateBountyStatus(activeBounties, reqs[r].bounty,
                                  resolvedStatus(reqs[r].success),
                                  resolveSignature(outcome, reqs[r].pda))
       ELSE UNCHANGED activeBounties
    /\ reqs' = [reqs EXCEPT ![r] = IdleReq]
    /\ UNCHANGED <<submitLog, isDev, now, bountyByPlayer, missionSecrets, nextId, chainCalls,
                   commitments, aiThrew>>
    /\ UNCHANGED <<finVars, sgtVars, valVars>>

\* --------------------------------------------------------- POST /demo/submit
\* Registered in development mode only, where validatePhoto skips the pre-checks.
\* No status guard: markBountyValidating is tried and its result ignored.
DemoSubmit(r, b) ==
    /\ isDev
    /\ FreeSlot(r)
    /\ IF ~MapHas(activeBounties, b)
       THEN UNCHANGED <<activeBounties, reqs>>
       ELSE /\ activeBounties' = markBountyValidating(activeBounties, b)
            /\ reqs' = [reqs EXCEPT ![r] = Awaiting(b, activeBounties[b], "demo_ai", FALSE)]
    /\ UNCHANGED <<submitLog, isDev, now, bountyByPlayer, missionSecrets, nextId, chainCalls,
                   commitments, aiThrew>>
    /\ UNCHANGED <<finVars, sgtVars, valVars>>

DemoAiReturns(r, response) ==
    /\ reqs[r].pc = "demo_ai"
    /\ LET validation == validatePhoto(response, reqs[r].tier)
           b == reqs[r].bounty
       IN  /\ activeBounties' = updateBountyStatus(activeBounties, b,
                                    IF validation.isValid THEN "won" ELSE "lost", NoSig)
           /\ aiThrew' = IF adjudicationThrows(response) THEN aiThrew \cup {b} ELSE aiThrew
    /\ reqs' = [reqs EXCEPT ![r] = IdleReq]
    /\ UNCHANGED <<submitLog, isDev, now, bountyByPlayer, missionSecrets, nextId, chainCalls, commitments>>
    /\ UNCHANGED <<finVars, sgtVars, valVars>>

\* ------------------------------------------------------------------ timers
ExpireSweep ==
    /\ activeBounties' = expireOldBounties(activeBounties)
    /\ UNCHANGED <<submitLog, isDev, now, bountyByPlayer, missionSecrets, nextId, reqs,
                   chainCalls, commitments, aiThrew>>
    /\ UNCHANGED <<finVars, sgtVars, valVars>>

cleanupOldBounties(maxAgeHours) ==
    LET removed == CleanupRemoved(activeBounties, maxAgeHours)
        wallets == {activeBounties[id].playerWallet : id \in removed}
    IN  /\ activeBounties' = [id \in (DOMAIN activeBounties) \ removed |-> activeBounties[id]]
        /\ bountyByPlayer' = [w \in (DOMAIN bountyByPlayer) \ wallets |-> bountyByPlayer[w]]
        /\ missionSecrets' = [id \in (DOMAIN missionSecrets) \ removed |-> missionSecrets[id]]

CleanupSweep ==
    /\ cleanupOldBounties(CLEANUP_MAX_AGE_HOURS)
    /\ UNCHANGED <<submitLog, isDev, now, nextId, reqs, chainCalls, commitments, aiThrew>>
    /\ UNCHANGED <<finVars, sgtVars, valVars>>

\* Time passes, by a step that outlasts the tier-2 and tier-3 timers or by the
\* retention horizon of cleanupOldBounties.
Tick(d) ==
    /\ now + d <= MaxNow
    /\ d = ShortStep => (now % LongStep) + d <= MaxShortTicks * ShortStep
    /\ now' = now + d
    /\ UNCHANGED <<submitLog, isDev, activeBounties, bountyByPlayer, missionSecrets, nextId, reqs,
                   chainCalls, commitments, aiThrew>>
    /\ UNCHANGED <<finVars, sgtVars, valVars>>

StartSigs == {<<"start_tx">>}
\* The wallets are interchangeable: the first bounty is wA's.
WalletsOffered == IF nextId = 1 THEN {"wA"} ELSE Wallets
\* The settlement account the client opened for the bounty it starts.
PdaOfStart == IF nextId % 2 = 1 THEN "pda1" ELSE "pda2"

\* =================================================== finalization worker
MAX_ATTEMPTS == 10
CHALLENGE_PERIOD == 300
MaxRecs == 2
MaxPolls == 2
ObjIds == 1..MaxRecs
PollIds == 1..MaxPolls

IdlePoll == [pc |-> "idle", ready |-> <<>>]

FinalizerInit ==
    /\ pendingFinalizations = <<>>
    /\ recs = EmptyMap
    /\ intervalHandle = FALSE
    /\ polls = [p \in PollIds |-> IdlePoll]
    /\ attemptsMade = EmptyMap
    /\ lastEnqueueDup = ""

\* pendingFinalizations.has(bountyPda)
QueueHas(queue, heap, bountyPda) ==
    \E i \in 1..Len(queue) : heap[queue[i]].bountyPda = bountyPda

\* pendingFinalizations.delete(bountyPda)
QueueDelete(queue, heap, bountyPda) ==
    LET Keep(o) == heap[o].bountyPda # bountyPda
    IN  SelectSeq(queue, Keep)

PendingFinalization(bountyPda, playerWallet, challengeEndsAt) ==
    [bountyPda |-> bountyPda, playerWallet |-> playerWallet,
     challengeEndsAt |-> challengeEndsAt, attempts |-> 0, addedAt |-> now]

\* A queueFinalization without its has() guard: Map.set puts the new object under
\* the key, at the key's place when the key is there.
queueFinalizationUnguarded(queue, heap, o, bountyPda, playerWallet, challengeEndsAt) ==
    [queue |-> IF QueueHas(queue, heap, bountyPda)
               THEN [i \in 1..Len(queue) |->
                        IF heap[queue[i]].bountyPda = bountyPda THEN o ELSE queue[i]]
               ELSE Append(queue, o),
     heap |-> MapSet(heap, o, PendingFinalization(bountyPda, playerWallet, challengeEndsAt))]

\* queueFinalization: the queue and the heap it leaves; o is the new object.
queueFinalization(queue, heap, o, bountyPda, playerWallet, challengeEndsAt) ==
    IF QueueHas(queue, heap, bountyPda)
    THEN [queue |-> queue, heap |-> heap]
    ELSE [queue |-> Append(queue, o),
          heap |-> MapSet(heap, o,
                          PendingFinalization(bountyPda, playerWallet, challengeEndsAt))]

QueueFinalization(bountyPda, playerWallet, challengeEndsAt) ==
    LET o == Cardinality(DOMAIN recs) + 1
        out == queueFinalization(pendingFinalizations, recs, o, bountyPda, playerWallet,
                                 challengeEndsAt)
    IN  /\ o <= MaxRecs \/ QueueHas(pendingFinalizations, recs, bountyPda)
        /\ pendingFinalizations' = out.queue
        /\ recs' = out.heap
        /\ attemptsMade' = [x \in DOMAIN out.heap |->
                               IF x \in DOMAIN attemptsMade THEN attemptsMade[x] ELSE 0]
        /\ lastEnqueueDup' = IF QueueHas(pendingFinalizations, recs, bountyPda)
                             THEN bountyPda ELSE ""
        /\ UNCHANGED <<intervalHandle, polls>>
        /\ UNCHANGED <<isDev, now, bountyVars, sgtVars, valVars>>

startFinalizationWorker ==
    /\ intervalHandle' = TRUE
    /\ lastEnqueueDup' = ""
    /\ UNCHANGED <<pendingFinalizations, recs, polls, attemptsMade>>
    /\ UNCHANGED <<isDev, now, bountyVars, sgtVars, valVars>>

stopFinalizationWorker ==
    /\ intervalHandle' = FALSE
    /\ lastEnqueueDup' = ""
    /\ UNCHANGED <<pendingFinalizations, recs, polls, attemptsMade>>
    /\ UNCHANGED <<isDev, now, bountyVars, sgtVars, valVars>>

\* A ready list that does not look at the challenge window.
ReadyListIgnoringWindow(queue, heap) == queue

\* The records processPendingFinalizations finds due, in the Map's order.
ReadyList(queue, heap) ==
    LET Due(o) == now >= heap[o].challengeEndsAt
    IN  SelectSeq(queue, Due)

FreePoll(p) == polls[p].pc = "idle" /\ \A q \in PollIds : q < p => polls[q].pc # "idle"

\* The interval fires: processPendingFinalizations runs to its first await, the
\* call of finalizeSingleBounty for the first due record.
PollTick(p) ==
    /\ intervalHandle
    /\ FreePoll(p)
    /\ LET ready == ReadyList(pendingFinalizations, recs)
       IN  IF Len(pendingFinalizations) = 0 \/ ready = <<>>
           THEN UNCHANGED <<polls, attemptsMade>>
           ELSE /\ polls' = [polls EXCEPT ![p] = [pc |-> "awaiting", ready |-> ready]]
                /\ attemptsMade' = [attemptsMade EXCEPT ![Head(ready)] = @ + 1]
    /\ lastEnqueueDup' = ""
    /\ UNCHANGED <<pendingFinalizations, recs, intervalHandle>>
    /\ UNCHANGED <<isDev, now, bountyVars, sgtVars, valVars>>

\* What the catch block does to the record and the queue.
afterFailure(queue, heap, o) ==
    LET heap2 == [heap EXCEPT ![o].attempts = @ + 1]
    IN  [heap |-> heap2,
         queue |-> IF heap2[o].attempts >= MAX_ATTEMPTS
                   THEN QueueDelete(queue, heap2, heap2[o].bountyPda)
                   ELSE queue]

\* finalizeSingleBounty settles for the record the poll awaits; the loop goes on
\* to the next record of its ready list.
FinalizeReturns(p, ok) ==
    /\ polls[p].pc = "awaiting"
    /\ LET o == Head(polls[p].ready)
           rest == Tail(polls[p].ready)
           failed == afterFailure(pendingFinalizations, recs, o)
       IN  /\ IF ok
              THEN /\ pendingFinalizations' =
                          QueueDelete(pendingFinalizations, recs, recs[o].bountyPda)
                   /\ UNCHANGED recs
              ELSE /\ pendingFinalizations' = failed.queue
                   /\ recs' = failed.heap
           /\ IF rest = <<>>
              THEN /\ polls' = [polls EXCEPT ![p] = IdlePoll]
                   /\ UNCHANGED attemptsMade
              ELSE /\ polls' = [polls EXCEPT ![p].ready = rest]
                   /\ attemptsMade' = [attemptsMade EXCEPT ![Head(rest)] = @ + 1]
    /\ lastEnqueueDup' = ""
    /\ UNCHANGED intervalHandle
    /\ UNCHANGED <<isDev, now, bountyVars, sgtVars, valVars>>

\* getFinalizerStatus: the settlement references the status surface lists.
getFinalizerStatus ==
    [queueSize |-> Len(pendingFinalizations),
     pending |-> {[bountyPda |-> recs[pendingFinalizations[i]].bountyPda,
                   challengeEndsAt |-> recs[pendingFinalizations[i]].challengeEndsAt,
                   attempts |-> recs[pendingFinalizations[i]].attempts] :
                      i \in 1..Len(pendingFinalizations)}]

\* ============================================================ SGT verifier
NONCE_EXPIRY_MS == 300000
MaxNonces == 2
MaxSgtReqs == 2
Nonces == 1..MaxNonces
SgtReqIds == 1..MaxSgtReqs
Mints == {"mint1", "mint2"}

\* The SIWS message the client presents: the address and the nonce are the fields
\* the server reads; the others are serialized and signed but never compared.
Messages == [address : Wallets, nonce : Nonces]
\* A detached signature: who signed, and what.  Only the holder of a wallet's key
\* signs with it.
Signatures == [signer : Wallets, message : Messages]

\* nacl.sign.detached.verify(messageBytes, signatureBytes, publicKeyBytes)
ed25519Verify(message, signature, publicKey) ==
    signature.signer = publicKey /\ signature.message = message

IdleSgtReq == [pc |-> "idle", walletAddress |-> "", signer |-> "", nonceFor |-> ""]
\* The SGTVerificationResult objects verifySGTForWallet returns (null and an
\* absent error are the empty string).
NoResult == [verified |-> FALSE, sgtMintAddress |-> "", error |-> ""]
invalidSignatureResult(walletAddress) ==
    [verified |-> FALSE, sgtMintAddress |-> "", error |-> "Invalid signature"]
\* A sybil conflict answered with the signature failure's reason.
sybilConflictFoldedIntoSignatureFailure(mintAddress, walletAddress) ==
    [verified |-> FALSE, sgtMintAddress |-> mintAddress, error |-> "Invalid signature"]
sybilConflictResult(mintAddress, walletAddress) ==
    [verified |-> FALSE, sgtMintAddress |-> mintAddress,
     error |-> "This SGT is already registered to another wallet"]
verifiedResult(mintAddress, walletAddress) ==
    [verified |-> TRUE, sgtMintAddress |-> mintAddress, error |-> ""]

NoClaim == [walletAddress |-> "", mintAddress |-> "", rejected |-> FALSE, result |-> NoResult]
NoAttempt == [nonce |-> 0, valid |-> FALSE, usedBefore |-> FALSE, wouldVerify |-> FALSE,
              result |-> NoResult]

SgtInit ==
    /\ activeNonces = EmptyMap
    /\ nextNonce = 1
    /\ verifiedWallets = EmptyMap
    /\ sgtMintToWallet = EmptyMap
    /\ sgtReqs = [r \in SgtReqIds |-> IdleSgtReq]
    /\ usedNonces = {}
    /\ lastAttempt = NoAttempt
    /\ provenance = EmptyMap
    /\ lastClaim = NoClaim

generateSIWSNonce(nonces, nonce, walletAddress) ==
    MapSet(nonces, nonce, [createdAt |-> now, walletAddress |-> walletAddress])

\* isWalletSGTVerified(walletAddress)?.verified
isWalletSGTVerified(walletAddress) ==
    MapHas(verifiedWallets, walletAddress) /\ verifiedWallets[walletAddress].verified

\* POST /nonce
NonceRequest(walletAddress) ==
    /\ nextNonce <= MaxNonces
    /\ IF isWalletSGTVerified(walletAddress)
       THEN UNCHANGED <<activeNonces, nextNonce>>
       ELSE /\ activeNonces' = generateSIWSNonce(activeNonces, nextNonce, walletAddress)
            /\ nextNonce' = nextNonce + 1
    /\ UNCHANGED <<verifiedWallets, sgtMintToWallet, sgtReqs, usedNonces, lastAttempt,
                   provenance, lastClaim>>
    /\ UNCHANGED <<isDev, now, bountyVars, finVars, valVars>>

NonceExpired(entry) == now * 1000 - entry.createdAt * 1000 > NONCE_EXPIRY_MS

\* A verifySIWSSignature that leaves the nonce in the table after a valid signature.
verifySIWSSignatureKeepingNonce(nonces, message, signature) ==
    IF ~MapHas(nonces, message.nonce)
    THEN [valid |-> FALSE, nonces |-> nonces]
    ELSE IF NonceExpired(nonces[message.nonce])
    THEN [valid |-> FALSE, nonces |-> MapDelete(nonces, message.nonce)]
    ELSE IF nonces[message.nonce].walletAddress # message.address
    THEN [valid |-> FALSE, nonces |-> nonces]
    ELSE [valid |-> ed25519Verify(message, signature, message.address), nonces |-> nonces]

\* verifySIWSSignature: its result and the nonce table it leaves.
verifySIWSSignature(nonces, message, signature) ==
    IF ~MapHas(nonces, message.nonce)
    THEN [valid |-> FALSE, nonces |-> nonces]
    ELSE IF NonceExpired(nonces[message.nonce])
    THEN [valid |-> FALSE, nonces |-> MapDelete(nonces, message.nonce)]
    ELSE IF nonces[message.nonce].walletAddress # message.address
    THEN [valid |-> FALSE, nonces |-> nonces]
    ELSE LET valid == ed25519Verify(message, signature, message.address)
         IN  [valid |-> valid,
              nonces |-> IF valid THEN MapDelete(nonces, message.nonce) ELSE nonces]

\* POST /verify, up to the await of checkSGTOwnership.
VerifyStart(r, walletAddress, signature, message) ==
    /\ sgtReqs[r].pc = "idle"
    /\ \A q \in SgtReqIds : q < r => sgtReqs[q].pc # "idle"
    /\ LET out == verifySIWSSignature(activeNonces, message, signature)
       IN  /\ activeNonces' = out.nonces
           /\ lastAttempt' = [nonce |-> message.nonce, valid |-> out.valid,
                              usedBefore |-> message.nonce \in usedNonces,
                              wouldVerify |-> ed25519Verify(message, signature,
                                                            message.address),
                              result |-> IF out.valid THEN NoResult
                                         ELSE invalidSignatureResult(walletAddress)]
           /\ usedNonces' = IF out.valid THEN usedNonces \cup {message.nonce} ELSE usedNonces
           /\ IF out.valid
              THEN sgtReqs' = [sgtReqs EXCEPT ![r] =
                                  [pc |-> "ownership", walletAddress |-> walletAddress,
                                   signer |-> signature.signer,
                                   nonceFor |-> activeNonces[message.nonce].walletAddress]]
              ELSE UNCHANGED sgtReqs
    /\ UNCHANGED <<nextNonce, verifiedWallets, sgtMintToWallet, provenance, lastClaim>>
    /\ UNCHANGED <<isDev, now, bountyVars, finVars, valVars>>

\* checkSGTOwnership answers what the chain (or the RPC heuristic) says the wallet
\* holds; a thrown query is turned into "no token".
OwnershipResults == {[hasSGT |-> FALSE, mintAddress |-> ""]}
                    \cup {[hasSGT |-> TRUE, mintAddress |-> m] : m \in Mints}

\* A verifySGTForWallet without its anti-sybil step.
antiSybilDisabled(registry, mintAddress, walletAddress) == FALSE

\* Step 3 of verifySGTForWallet: the mint is claimed by another wallet.
antiSybilRejects(registry, mintAddress, walletAddress) ==
    MapHas(registry, mintAddress) /\ registry[mintAddress] # walletAddress

\* A verifySGTForWallet that caches the result and leaves the registry alone.
registerMintSkipped(registry, mintAddress, walletAddress) == registry

\* sgtMintToWallet.set(mintAddress, walletAddress)
registerMint(registry, mintAddress, walletAddress) ==
    MapSet(registry, mintAddress, walletAddress)

\* POST /verify, from the return of checkSGTOwnership on.
VerifyOwnershipReturns(r, owned) ==
    /\ sgtReqs[r].pc = "ownership"
    /\ LET walletAddress == sgtReqs[r].walletAddress
       IN  IF ~owned.hasSGT \/ antiSybilRejects(sgtMintToWallet, owned.mintAddress, walletAddress)
           THEN UNCHANGED <<verifiedWallets, sgtMintToWallet, provenance>>
           ELSE /\ verifiedWallets' = MapSet(verifiedWallets, walletAddress,
                       [verified |-> TRUE, sgtMintAddress |-> owned.mintAddress,
                        verifiedAt |-> now])
                /\ sgtMintToWallet' = registerMint(sgtMintToWallet, owned.mintAddress,
                                                    walletAddress)
                /\ provenance' = MapSet(provenance, walletAddress,
                       [signer |-> sgtReqs[r].signer, nonceFor |-> sgtReqs[r].nonceFor])
    /\ lastClaim' = IF owned.hasSGT
                    THEN [walletAddress |-> sgtReqs[r].walletAddress,
                          mintAddress |-> owned.mintAddress,
                          rejected |-> antiSybilRejects(sgtMintToWallet, owned.mintAddress,
                                                        sgtReqs[r].walletAddress),
                          result |-> IF antiSybilRejects(sgtMintToWallet, owned.mintAddress,
                                                         sgtReqs[r].walletAddress)
                                     THEN sybilConflictResult(owned.mintAddress,
                                                              sgtReqs[r].walletAddress)
                                     ELSE verifiedResult(owned.mintAddress,
                                                         sgtReqs[r].walletAddress)]
                    ELSE lastClaim
    /\ sgtReqs' = [sgtReqs EXCEPT ![r] = IdleSgtReq]
    /\ UNCHANGED <<activeNonces, nextNonce, usedNonces, lastAttempt>>
    /\ UNCHANGED <<isDev, now, bountyVars, finVars, valVars>>

cleanupExpiredNonces ==
    /\ activeNonces' = [n \in {x \in DOMAIN activeNonces : ~NonceExpired(activeNonces[x])} |->
                           activeNonces[n]]
    /\ UNCHANGED <<nextNonce, verifiedWallets, sgtMintToWallet, sgtReqs, usedNonces,
                   lastAttempt, provenance, lastClaim>>
    /\ UNCHANGED <<isDev, now, bountyVars, finVars, valVars>>

SgtNext ==
    \/ \E w \in Wallets : NonceRequest(w)
    \/ \E r \in SgtReqIds, w \in Wallets, sig \in Signatures, m \in Messages :
          VerifyStart(r, w, sig, m)
    \/ \E r \in SgtReqIds, owned \in OwnershipResults : VerifyOwnershipReturns(r, owned)
    \/ cleanupExpiredNonces
    \/ \E d \in {ShortStep} : Tick(d)

\* ===================================================== validatePhoto, alone
\* The arguments POST /submit passes: the EXIF metadata of the upload, the
\* bounty's tier and its creation time.
ValidateStarts == {now - 400, now}
ValidatePhotoTimes(bountyStartTime) ==
    {bountyStartTime - 600, bountyStartTime - 100, bountyStartTime - 3, bountyStartTime + 10,
     now + 30, now + 100}
ValidateMetadatas(bountyStartTime) ==
    {[timestamp |-> ts, latitude |-> gps[1], longitude |-> gps[2],
      deviceMake |-> dev[1], deviceModel |-> dev[2]] :
        ts \in {{}} \cup {{t} : t \in ValidatePhotoTimes(bountyStartTime)},
        gps \in {<<{}, {}>>, <<{45}, {9}>>, <<{0}, {0}>>},
        dev \in {<<None, None>>, <<"Google", "Pixel 8">>, <<None, "Screenshot App">>}}
ValidateConfLevels == {72, 80, 84, 90}
ValidateResponses ==
    [kind : AiKinds \ {"ok"}, isValid : {FALSE}, confidence : {0}, isScreenshot : {FALSE}]
    \cup [kind : {"ok"}, isValid : BOOLEAN, confidence : ValidateConfLevels,
          isScreenshot : BOOLEAN]

IdleValidate ==
    [pc |-> "idle", metadata |-> {}, tier |-> 1, bountyStartTime |-> 0,
     aiCalled |-> FALSE, response |-> {}, result |-> NoValidation]

ValidateInit == vp = IdleValidate

\* validatePhoto up to its await of the vision call: outside development mode the
\* pre-checks may return before the call is made.
ValidatePhotoCall(metadata, tier, bountyStartTime) ==
    /\ vp.pc # "ai"
    /\ LET pre == performPreChecks(metadata, bountyStartTime)
           call == [pc |-> "ai", metadata |-> {metadata}, tier |-> tier,
                    bountyStartTime |-> bountyStartTime, aiCalled |-> TRUE,
                    response |-> {}, result |-> NoValidation]
       IN  IF ~isDev /\ ~pre.passed
           THEN vp' = [call EXCEPT !.pc = "done", !.aiCalled = FALSE, !.result = pre.result]
           ELSE vp' = call
    /\ UNCHANGED <<isDev, now, bountyVars, finVars, sgtVars>>

\* validatePhoto from the return (or the throw) of the vision call on.
ValidatePhotoAiReturns(response) ==
    /\ vp.pc = "ai"
    /\ vp' = [vp EXCEPT !.pc = "done", !.response = {response},
                        !.result = validatePhoto(response, vp.tier)]
    /\ UNCHANGED <<isDev, now, bountyVars, finVars, sgtVars>>

\* ---------------------------------------------------------- process restart
\* The process exits and starts again: every module-level Map and timer handle is
\* created anew and the requests and polls in flight are gone.  The clock, the
\* settlement calls already made and the random values already drawn are not the
\* process's to lose.
Restart ==
    /\ activeBounties' = EmptyMap
    /\ bountyByPlayer' = EmptyMap
    /\ missionSecrets' = EmptyMap
    /\ reqs' = [r \in SlotIds |-> IdleReq]
    /\ pendingFinalizations' = <<>>
    /\ intervalHandle' = FALSE
    /\ polls' = [p \in PollIds |-> IdlePoll]
    /\ lastEnqueueDup' = ""
    /\ activeNonces' = EmptyMap
    /\ verifiedWallets' = EmptyMap
    /\ sgtMintToWallet' = EmptyMap
    /\ sgtReqs' = [r \in SgtReqIds |-> IdleSgtReq]
    /\ vp' = IdleValidate
    /\ UNCHANGED <<submitLog, isDev, now, nextId, chainCalls, commitments, aiThrew, recs, attemptsMade,
                   nextNonce, usedNonces, lastAttempt, provenance, lastClaim>>

FinalizerNext ==
    \/ \E pda \in Pdas, w \in Wallets : QueueFinalization(pda, w, now + CHALLENGE_PERIOD)
    \/ startFinalizationWorker
    \/ stopFinalizationWorker
    \/ \E p \in PollIds : PollTick(p)
    \/ \E p \in PollIds, ok \in BOOLEAN : FinalizeReturns(p, ok)
    \/ Restart
    \/ \E d \in {ShortStep} : Tick(d)

ValidateNext ==
    \/ \E start \in ValidateStarts, t \in Tiers :
          \E m \in ValidateMetadatas(start) : ValidatePhotoCall(m, t, start)
    \/ \E resp \in ValidateResponses : ValidatePhotoAiReturns(resp)

\* ------------------------------------------------------------------- Init
Init ==
    /\ isDev \in BOOLEAN
    /\ now = 0
    /\ BountyInit
    /\ FinalizerInit
    /\ SgtInit
    /\ ValidateInit

Next ==
    \/ \E w \in WalletsOffered, t \in TiersOffered, sig \in StartSigs :
          StartBounty(w, t, PdaOfStart, sig)
    \/ \E w \in WalletsOffered, t \in TiersOffered : DemoStart(w, t)
    \/ \E r \in ReqIds, b \in BountyIds, m \in Metadatas : SubmitPhoto(r, b, m)
    \/ \E r \in ReqIds, resp \in AiResponses : SubmitAiReturns(r, resp)
    \/ \E r \in ReqIds, ok \in BOOLEAN : SubmitRevealReturns(r, ok)
    \/ \E r \in ReqIds, ok \in BOOLEAN, fetchOk \in BOOLEAN : SubmitProposeReturns(r, ok, fetchOk)
    \/ \E r \in ReqIds, o \in FinalizeOutcomes : SubmitFinalizeReturns(r, o)
    \/ \E r \in ReqIds, b \in BountyIds : DemoSubmit(r, b)
    \/ \E r \in ReqIds, resp \in AiResponses : DemoAiReturns(r, resp)
    \/ ExpireSweep
    \/ CleanupSweep
    \/ \E d \in {ShortStep, LongStep} : Tick(d)

\* Two requests for wA's bounty in flight at once: POST /submit and, in
\* development mode, POST /demo/submit, with the retention timer running.
RaceMetadata ==
    [timestamp |-> {}, latitude |-> {45}, longitude |-> {9},
     deviceMake |-> "Google", deviceModel |-> "Pixel 8"]
RaceResponses ==
    {[kind |-> "ok", isValid |-> TRUE, confidence |-> 95, isScreenshot |-> FALSE]}
RaceNext ==
    \/ \E sig \in StartSigs : StartBounty("wA", 3, "pda1", sig)
    \/ \E r \in SlotIds, b \in BountyIds : SubmitPhoto(r, b, RaceMetadata)
    \/ \E r \in SlotIds, resp \in RaceResponses : SubmitAiReturns(r, resp)
    \/ \E r \in SlotIds, ok \in BOOLEAN : SubmitRevealReturns(r, ok)
    \/ \E r \in SlotIds, ok \in BOOLEAN : SubmitProposeReturns(r, ok, TRUE)
    \/ \E r \in SlotIds, o \in FinalizeOutcomes : SubmitFinalizeReturns(r, o)
    \/ \E r \in SlotIds, b \in BountyIds : DemoSubmit(r, b)
    \/ \E r \in SlotIds, resp \in RaceResponses : DemoAiReturns(r, resp)
    \/ CleanupSweep
    \/ \E d \in {ShortStep, LongStep} : Tick(d)

\* The bounty routes and the store's timers.
Spec == Init /\ [][Next]_vars

\* The finalization worker and its queue.
FinalizerSpec == Init /\ [][FinalizerNext]_vars

\* The SGT verifier's routes and its nonce timer.
SgtSpec == Init /\ [][SgtNext]_vars

\* Calls of validatePhoto on their own.
ValidateSpec == Init /\ [][ValidateNext]_vars

\* The bounty routes with overlapping requests.
RaceSpec == Init /\ [][RaceNext]_vars

\* ================================================================ properties
\* C1: every wallet has at most one bounty whose status is pending or validating
\* (a start for a wallet that has one creates no second record).
C1_AtMostOneActiveBountyPerWallet ==
    \A b1 \in DOMAIN activeBounties, b2 \in DOMAIN activeBounties :
        (/\ activeBounties[b1].playerWallet = activeBounties[b2].playerWallet
         /\ activeBounties[b1].status \in {"pending", "validating"}
         /\ activeBounties[b2].status \in {"pending", "validating"})
        => b1 = b2

\* C2: for every settlement record the worker makes at most MAX_ATTEMPTS calls of
\* finalizeSingleBounty, whatever the schedule of poll ticks and the outcomes.
C2_AttemptsNeverExceedMax ==
    \A o \in DOMAIN attemptsMade : attemptsMade[o] <= MAX_ATTEMPTS

\* C3: a bounty whose submission ended with finalizeBounty rejected by
\* ChallengePeriodActive has its settlement account queued in the worker.
C3_PendingFinalizeIsQueued ==
    \A b \in DOMAIN activeBounties :
        activeBounties[b].transactionSignature[1] = "pending_finalize"
        => QueueHas(pendingFinalizations, recs, activeBounties[b].bountyPda)

\* C4: once a bounty is won, lost or expired no step changes its status or its
\* settlement transaction reference.
C4_TerminalStatusIsFinal ==
    [][\A b \in DOMAIN activeBounties :
          (activeBounties[b].status \in Terminal /\ b \in DOMAIN activeBounties')
          => /\ activeBounties'[b].status = activeBounties[b].status
             /\ activeBounties'[b].transactionSignature =
                    activeBounties[b].transactionSignature]_vars

\* C5: a verification attempt carrying a nonce that an earlier verification
\* succeeded with fails, even when its signature is valid.
C5_UsedNonceNeverVerifiesAgain ==
    lastAttempt.usedBefore => ~lastAttempt.valid

\* C5 witness: a replay of a used nonce with a valid signature was refused.
C5_ReplayWithValidSignatureRefused ==
    lastAttempt.usedBefore /\ lastAttempt.wouldVerify /\ ~lastAttempt.valid

\* C6: a registry entry, once made, never changes, and every verified wallet's
\* token is registered to that wallet, so no other wallet verified with it.
C6_RegistryFirstClaimWins ==
    [][/\ \A m \in DOMAIN sgtMintToWallet :
             m \in DOMAIN sgtMintToWallet' /\ sgtMintToWallet'[m] = sgtMintToWallet[m]
       /\ \A w \in DOMAIN verifiedWallets' :
             /\ verifiedWallets'[w].sgtMintAddress \in DOMAIN sgtMintToWallet'
             /\ sgtMintToWallet'[verifiedWallets'[w].sgtMintAddress] = w]_vars

\* C6 witness: a wallet presented a token registered to another wallet, was
\* refused, and is not verified with it.
C6_SecondClaimantRefused ==
    /\ lastClaim.rejected
    /\ sgtMintToWallet[lastClaim.mintAddress] # lastClaim.walletAddress
    /\ lastClaim.walletAddress \notin DOMAIN verifiedWallets

\* C7: a wallet is recorded as verified only on a signature made with its own key
\* over a message whose nonce was issued for it.
C7_VerifiedOnlyByOwnSignature ==
    \A w \in DOMAIN verifiedWallets :
        provenance[w].signer = w /\ provenance[w].nonceFor = w

\* C8: every revealMission call carries the pair stored at creation, whose digest
\* is the commitment generated at creation; the stored pair and the commitment
\* never change while they are kept.
C8_RevealMatchesCommitment ==
    [][/\ \A b \in DOMAIN commitments :
             /\ b \in DOMAIN commitments' /\ commitments'[b] = commitments[b]
             /\ (b \in DOMAIN missionSecrets /\ b \in DOMAIN missionSecrets')
                => missionSecrets'[b] = missionSecrets[b]
       /\ \A b \in DOMAIN missionSecrets' :
             /\ b \in DOMAIN commitments'
             /\ Sha256(<<missionSecrets'[b].missionIdBytes, missionSecrets'[b].salt>>)
                    = commitments'[b]
       /\ \A c \in chainCalls' :
             c.op = "revealMission"
             => /\ c.bounty \in DOMAIN commitments'
                /\ Sha256(c.arg) = commitments'[c.bounty]]_vars

\* C8 witness: with two commitments generated, the second bounty's pair was
\* revealed.
C8_SecondBountyRevealed ==
    /\ Cardinality(DOMAIN commitments) = 2
    /\ \E c \in chainCalls : c.op = "revealMission" /\ c.bounty = 2

\* C9: a bounty one of whose submissions had the vision call, the parsing or the
\* schema validation throw never has status won.
C9_AdjudicatorFailureNeverWins ==
    \A b \in aiThrew : b \in DOMAIN activeBounties => activeBounties[b].status # "won"

\* C10: queueFinalization for an account that is already queued changes neither
\* the queue nor any record (challenge end, attempts, enqueue time).
C10_DuplicateEnqueueIsNoOp ==
    [][\A pda \in Pdas, w \in Wallets :
          (/\ QueueHas(pendingFinalizations, recs, pda)
           /\ QueueFinalization(pda, w, now + CHALLENGE_PERIOD))
          => UNCHANGED <<pendingFinalizations, recs>>]_vars

\* C10 witness: the last operation was an enqueue of an account that was queued,
\* with attempts already counted and at another time than its first enqueue.
C10_DuplicateEnqueueHappened ==
    /\ lastEnqueueDup # ""
    /\ \E i \in 1..Len(pendingFinalizations) :
          /\ recs[pendingFinalizations[i]].bountyPda = lastEnqueueDup
          /\ recs[pendingFinalizations[i]].attempts > 0
          /\ recs[pendingFinalizations[i]].addedAt # now

\* The metadata carries neither GPS coordinates nor a device make or model.
BareMetadata(m) ==
    m.latitude = {} /\ m.longitude = {} /\ m.deviceMake = None /\ m.deviceModel = None

\* C12: outside development mode a photo without GPS coordinates and without
\* device make and model is rejected as a screenshot, and the vision model is not
\* called for it.
C12_BareMetadataRejectedWithoutModel ==
    \A m \in vp.metadata :
        (~isDev /\ vp.pc # "idle" /\ BareMetadata(m))
        => /\ vp.pc = "done"
           /\ ~vp.result.isValid
           /\ vp.result.isScreenshot
           /\ ~vp.aiCalled

\* C12 witness: such a photo was submitted in strict mode for a tier-3 bounty.
C12_BarePhotoSubmitted ==
    /\ ~isDev /\ vp.pc = "done" /\ vp.tier = 3
    /\ \E m \in vp.metadata : BareMetadata(m) /\ m.timestamp = {now + 30}

C19_TenMinutesEarlyIsPreCaptured ==
    \A m \in vp.metadata :
        (/\ ~isDev /\ vp.pc # "idle"
         /\ ~BareMetadata(m) /\ m.deviceModel \notin SuspiciousModels
         /\ (Truthy(m.latitude) \/ m.deviceMake # None)
         /\ m.timestamp = {vp.bountyStartTime - 600})
        => /\ vp.pc = "done"
           /\ ~vp.aiCalled
           /\ ~vp.result.isValid
           /\ vp.result.reasoning = "pre_captured"

\* C11: the photo-submit request path never issues finalizeBounty; only the
\* finalization worker does.
C11_SubmitPathNeverFinalizes ==
    \A c \in chainCalls : c.op = "finalizeBounty" => c.by # "submit"

\* C15: no bounty stays in validating: outside development mode every validating
\* bounty has a submission in flight that is to give its verdict.
C15_ValidatingHasSubmissionInFlight ==
    \A b \in DOMAIN activeBounties :
        (~isDev /\ activeBounties[b].status = "validating")
        => \E r \in ReqIds : reqs[r].pc # "idle" /\ reqs[r].bounty = b

\* C14: a settlement account whose record was removed after MAX_ATTEMPTS failed
\* attempts is reported by getFinalizerStatus.
C14_ExhaustedReferenceReported ==
    \A o \in DOMAIN recs :
        recs[o].attempts >= MAX_ATTEMPTS
        => \E e \in getFinalizerStatus.pending : e.bountyPda = recs[o].bountyPda

\* C17: a queued record leaves the queue only when a finalize attempt for its
\* account returns (finalized or exhausted); a restart of the process keeps it.
C17_QueuedRecordSurvivesRestart ==
    [][\A pda \in Pdas :
          (/\ QueueHas(pendingFinalizations, recs, pda)
           /\ ~QueueHas(pendingFinalizations', recs', pda))
          => \E p \in PollIds, ok \in BOOLEAN : FinalizeReturns(p, ok)]_vars

\* C18: in the anti-sybil registry a wallet is bound to at most one token
\* identifier: no two distinct mints are registered to the same wallet.
C18_OneMintPerWallet ==
    \A m1 \in DOMAIN sgtMintToWallet, m2 \in DOMAIN sgtMintToWallet :
        sgtMintToWallet[m1] = sgtMintToWallet[m2] => m1 = m2

\* C20: a verification with a valid signature whose token is registered to a
\* different wallet ends with verified = false and an error reason that is not
\* the invalid-signature reason, and changes neither the verified-wallet cache
\* nor the token registry.
C20_SybilConflictDistinctAndInert ==
    [][\A r \in SgtReqIds, owned \in OwnershipResults :
          (/\ VerifyOwnershipReturns(r, owned)
           /\ owned.hasSGT
           /\ MapHas(sgtMintToWallet, owned.mintAddress)
           /\ sgtMintToWallet[owned.mintAddress] # sgtReqs[r].walletAddress)
          => /\ ~lastClaim'.result.verified
             /\ lastClaim'.result.error # ""
             /\ lastClaim'.result.error # invalidSignatureResult(sgtReqs[r].walletAddress).error
             /\ verifiedWallets' = verifiedWallets
             /\ sgtMintToWallet' = sgtMintToWallet]_vars

\* C20 witness: a sybil conflict has been answered, after an attempt with an
\* invalid signature had been answered too.
C20_SybilConflictAnswered ==
    /\ lastClaim.rejected
    /\ lastClaim.result.sgtMintAddress = lastClaim.mintAddress
    /\ ~lastClaim.result.verified
    /\ lastAttempt.result.error = "Invalid signature"

\* C16: when no mission secret is stored for a bounty at the moment POST /submit
\* resolves its photo, the resolution fails: that request issues no
\* proposeResolution, and it never sets the bounty to won or lost.
C16_NoSecretNoResolution ==
    [][\A r \in SlotIds :
          /\ (/\ reqs[r].pc = "ai"
              /\ reqs'[r].pc # "ai"
              /\ getMissionSecrets(missionSecrets, reqs[r].bounty) = {})
             => /\ reqs'[r].pc # "propose"
                /\ ~\E c \in chainCalls' \ chainCalls : c.op = "proposeResolution"
          /\ (/\ reqs[r].pc = "finalize"
              /\ MapHas(activeBounties', reqs[r].bounty)
              /\ activeBounties'[reqs[r].bounty].status \in {"won", "lost"}
              /\ activeBounties'[reqs[r].bounty] # activeBounties[reqs[r].bounty])
             => \E c \in chainCalls :
                   c.op = "revealMission" /\ c.bounty = reqs[r].bounty]_vars

\* C21: for each bounty at most one POST /submit request gets past the
\* pending-status guard, whatever the interleaving of the requests; so the
\* submit path calls the vision model at most once for it and issues
\* revealMission and proposeResolution at most once each: a failed reveal or
\* propose is not retried.
C21_OneSubmissionPerBounty ==
    \A b \in BountyIds :
        /\ submitLog[b].passed <= 1
        /\ submitLog[b].vision <= 1
        /\ submitLog[b].reveal <= 1
        /\ submitLog[b].propose <= 1

\* C21 witness: a second submission arrived while the first was in flight and
\* was turned away, and the first went on to its proposal.
C21_ConcurrentSubmitRefused ==
    \E b \in BountyIds :
        /\ submitLog[b].refusedInFlight
        /\ submitLog[b].passed = 1
        /\ submitLog[b].propose = 1

\* The records in the queue, and those of them whose challenge window has ended.
Queued(queue) == {queue[i] : i \in 1..Len(queue)}
DueNow(queue, heap) == {o \in Queued(queue) : heap[o].challengeEndsAt <= now}

\* C22: the worker issues finalizeBounty only for a record whose challenge-window
\* end time is not later than the current time; a poll takes up every queued
\* record whose end time has passed and attempts the first at once; and when an
\* attempt of the poll returns, failed or not, the poll goes on to its next due
\* record: every record it took up that is still queued is either still ahead of
\* it or attempted in that step.
C22_DueRecordsAttemptedOnlyWhenDue ==
    [][/\ \A o \in DOMAIN attemptsMade :
             attemptsMade'[o] > attemptsMade[o] => recs[o].challengeEndsAt <= now
       /\ \A p \in PollIds :
             (polls[p].pc = "idle" /\ intervalHandle /\ FreePoll(p)
              /\ \E q \in PollIds : PollTick(q))
             => /\ Queued(polls'[p].ready) = DueNow(pendingFinalizations, recs)
                /\ polls'[p].ready # <<>>
                   => attemptsMade'[Head(polls'[p].ready)] =
                         attemptsMade[Head(polls'[p].ready)] + 1
       /\ \A p \in PollIds, ok \in BOOLEAN :
             (polls[p].pc = "awaiting" /\ FinalizeReturns(p, ok))
             => \A o \in Queued(Tail(polls[p].ready)) \cap Queued(pendingFinalizations') :
                   \/ o \in Queued(Tail(polls'[p].ready))
                   \/ attemptsMade'[o] = attemptsMade[o] + 1]_vars

\* C22 witness: a poll found two records due, its attempt of the first one
\* failed, and it is attempting the second.
C22_SecondAttemptedAfterFailure ==
    \E p \in PollIds :
        /\ polls[p].pc = "awaiting"
        /\ Len(polls[p].ready) = 1
        /\ \E o \in Queued(pendingFinalizations) :
              /\ o # Head(polls[p].ready)
              /\ recs[o].attempts = 1
              /\ attemptsMade[o] = 1
        /\ attemptsMade[Head(polls[p].ready)] = 1
        /\ Head(polls[p].ready) \in Queued(pendingFinalizations)

\* C23: a bounty that is still pending when its expires-at has passed ends as
\* expired: it leaves pending only by becoming expired, which the periodic
\* sweep does on its next tick; and the sweep changes nothing else: a bounty it
\* changes was pending and past its deadline, and is expired afterwards.
C23_PendingPastDeadlineEndsExpired ==
    [][\A b \in DOMAIN activeBounties :
          /\ (/\ activeBounties[b].status = "pending"
              /\ now > activeBounties[b].expiresAt
              /\ b \in DOMAIN activeBounties'
              /\ activeBounties'[b].status # "pending")
             => activeBounties'[b].status = "expired"
          /\ (ExpireSweep /\ activeBounties'[b] # activeBounties[b])
             => /\ activeBounties[b].status = "pending"
                /\ now > activeBounties[b].expiresAt
                /\ activeBounties'[b].status = "expired"]_vars

\* C24: at any time at most one finalizeBounty call is in flight for a settlement
\* reference: no two runs of the poll await finalizeSingleBounty for the same
\* account, also when a tick fires while the previous run has not returned.
C24_OneFinalizeInFlightPerReference ==
    \A p \in PollIds, q \in PollIds :
        (/\ p # q
         /\ polls[p].pc = "awaiting"
         /\ polls[q].pc = "awaiting")
        => recs[Head(polls[p].ready)].bountyPda # recs[Head(polls[q].ready)].bountyPda

\* C25: every pending bounty is the one the player index holds for its wallet:
\* getPlayerActiveBounty of the wallet returns it, after any sequence of creates,
\* status updates, expiry sweeps and purges.
C25_PendingBountyIsIndexed ==
    \A b \in DOMAIN activeBounties :
        activeBounties[b].status = "pending"
        => getPlayerActiveBounty(activeBounties, bountyByPlayer,
                                 activeBounties[b].playerWallet) = {b}

\* C26: when POST /submit records an outcome for a bounty, won is recorded only
\* after proposeResolution(true) has returned successfully for its settlement
\* account and lost only after proposeResolution(false) has; no proposal with
\* the other outcome was made for it.
C26_RecordedOutcomeIsProposedOutcome ==
    [][\A r \in SlotIds :
          LET b == reqs[r].bounty
              Proposed(outcome) ==
                  ChainCall("proposeResolution_ok", activeBounties[b].bountyPda, b,
                            <<outcome>>, "submit") \in chainCalls
          IN  (/\ reqs[r].pc = "finalize"
               /\ reqs'[r].pc = "idle"
               /\ b \in DOMAIN activeBounties
               /\ b \in DOMAIN activeBounties'
               /\ activeBounties'[b] # activeBounties[b])
              => /\ activeBounties'[b].status \in {"won", "lost"}
                 /\ Proposed(activeBounties'[b].status = "won")
                 /\ ~Proposed(activeBounties'[b].status # "won")
                 /\ \A c \in chainCalls :
                       (c.op = "proposeResolution" /\ c.bounty = b /\ c.by = "submit")
                       => c.arg = <<activeBounties'[b].status = "won">>]_vars

\* C26 witness: a rejected photo went through settlement and its bounty is
\* recorded lost.
C26_LostAfterProposedLost ==
    \E b \in DOMAIN activeBounties :
        /\ activeBounties[b].status = "lost"
        /\ activeBounties[b].transactionSignature[1] \in {"finalize_sig", "pending_finalize"}
        /\ ChainCall("proposeResolution_ok", activeBounties[b].bountyPda, b, <<FALSE>>,
                     "submit") \in chainCalls

\* C27: a POST /submit that arrives after the bounty's expires-at starts nothing:
\* no request is left in flight, no vision call and no settlement call is
\* made, and the bounty, pending or already expired by the sweep, is expired
\* afterwards; a bounty in any other status is left as it is.
C27_LateSubmissionOnlyExpires ==
    [][\A b \in DOMAIN activeBounties :
          (/\ now > activeBounties[b].expiresAt
           /\ \E r \in SlotIds, m \in Metadatas \cup {RaceMetadata} : SubmitPhoto(r, b, m))
          => /\ reqs' = reqs
             /\ chainCalls' = chainCalls
             /\ \A f \in {"passed", "vision", "reveal", "propose"} :
                   submitLog'[b][f] = submitLog[b][f]
             /\ activeBounties[b].status \in {"pending", "expired"}
                => activeBounties'[b].status = "expired"
             /\ activeBounties[b].status # "pending" => activeBounties' = activeBounties]_vars

\* C27 witness: a bounty was expired by a late submission (the sweep is not
\* part of RaceSpec), and nothing was ever started for it.
C27_LateSubmissionExpiredBounty ==
    \E b \in DOMAIN activeBounties :
        /\ activeBounties[b].status = "expired"
        /\ now > activeBounties[b].expiresAt
        /\ submitLog[b] = NoSubmits
        /\ \A c \in chainCalls : c.bounty # b
        /\ \A r \in SlotIds : reqs[r].bounty # b

\* The screenshot rule does not flag the metadata: it has a device make or model
\* or non-zero GPS coordinates, and no screenshot model name.
CameraMetadata(m) ==
    /\ m.deviceModel \notin SuspiciousModels
    /\ m.deviceMake # None \/ m.deviceModel # None \/ Truthy(m.latitude) \/ Truthy(m.longitude)

\* C28: in strict mode, for every tier, a photo with device or GPS metadata that
\* was captured at or after the bounty's creation and is submitted before the
\* bounty's expires-at passes the recency and pre-capture checks: it is not
\* turned away before the vision call.
C28_PhotoTakenDuringBountyPassesPreChecks ==
    \A m \in vp.metadata :
        (/\ ~isDev /\ vp.pc # "idle"
         /\ CameraMetadata(m)
         /\ now <= vp.bountyStartTime + TIER_DURATIONS[vp.tier]
         /\ \E t \in m.timestamp : vp.bountyStartTime <= t /\ t <= now)
        => vp.aiCalled

\* C30: in strict mode a photo that carries device or GPS metadata (and no
\* screenshot model name) but no capture timestamp passes the recency and the
\* pre-capture check, whatever the bounty's creation time, and is sent to the
\* vision model.
C30_UntimedPhotoWithMetadataReachesModel ==
    \A m \in vp.metadata :
        (/\ ~isDev /\ vp.pc # "idle"
         /\ ~BareMetadata(m)
         /\ m.deviceModel \notin SuspiciousModels
         /\ m.timestamp = {})
        => /\ isPhotoRecent(m, MAX_PHOTO_AGE_SECONDS)
           /\ vp.aiCalled

\* C29: every wallet cached as verified with a token is the wallet the token
\* registry holds for that token.
C29_CachedTokenIsRegisteredToWallet ==
    \A w \in DOMAIN verifiedWallets :
        verifiedWallets[w].verified
        => /\ MapHas(sgtMintToWallet, verifiedWallets[w].sgtMintAddress)
           /\ sgtMintToWallet[verifiedWallets[w].sgtMintAddress] = w

\* C29 witness: a wallet verified a second time, with another token; the cache
\* holds the second token and the registry maps both tokens to the wallet.
C29_ReverifiedWithSecondToken ==
    \E w \in DOMAIN verifiedWallets :
        /\ verifiedWallets[w].verified
        /\ verifiedWallets[w].sgtMintAddress = "mint2"
        /\ MapHas(sgtMintToWallet, "mint1") /\ sgtMintToWallet["mint1"] = w
        /\ MapHas(sgtMintToWallet, "mint2") /\ sgtMintToWallet["mint2"] = w

====
